---- MODULE Spec2Model ----
(***************************************************************************)
(* Model of the config-driven fetch-and-extract engine of                  *)
(* src/src/web_fetcher.py: WebFetcher.fetch_json_api, WebFetcher.           *)
(* parse_items, WebFetcher.fetch and NewsCollector.collect.                 *)
(*                                                                         *)
(* Python strings are sequences of one-character strings, so that          *)
(* str.replace and str.split are computed and not assumed.  Python values  *)
(* of unknown shape (header and parameter values, decoded response bodies, *)
(* raw items) are tagged records [t |-> type, v |-> payload].              *)
(***************************************************************************)
EXTENDS Integers, Sequences, FiniteSets, TLC

(* ------------------------------ bounds --------------------------------- *)

\* Largest number of sources in the two groups of one configuration.
MaxSources == 2

(* --------------------------- Python values ----------------------------- *)

PStr(s) == [t |-> "str", v |-> s]
PInt(n) == [t |-> "int", v |-> n]
PList(s) == [t |-> "list", v |-> s]
PMap(f) == [t |-> "map", v |-> f]

\* The empty dict {} (a function with an empty domain).
EmptyMap == PMap(<<>>)

\* bool(x) of a Python value, as `if not items`, `if title`, `if oid` use it.
Truthy(x) ==
    CASE x.t = "str" -> x.v # <<>>
      [] x.t = "int" -> x.v # 0
      [] x.t = "list" -> x.v # <<>>
      [] x.t = "map" -> DOMAIN x.v # {}

\* dict.get(key, default) on a Python dict whose keys are strings.
DictGet(m, key, default) ==
    IF key \in DOMAIN m.v THEN m.v[key] ELSE default

\* dict.get(key, default) on a configuration mapping (a record).
Get(d, key, default) ==
    IF key \in DOMAIN d THEN d[key] ELSE default

(* ------------------------------ strings -------------------------------- *)

Digits == <<"0", "1", "2", "3", "4", "5", "6", "7", "8", "9">>

RECURSIVE DecimalOf(_)
\* str(n) for a non-negative integer n.
DecimalOf(n) ==
    IF n < 10 THEN <<Digits[n + 1]>>
    ELSE DecimalOf(n \div 10) \o <<Digits[(n % 10) + 1]>>

StartsWith(s, p) ==
    /\ Len(s) >= Len(p)
    /\ SubSeq(s, 1, Len(p)) = p

RECURSIVE Replace(_, _, _)
\* s.replace(old, new): every non-overlapping occurrence, left to right.
Replace(s, old, new) ==
    IF s = <<>> THEN <<>>
    ELSE IF StartsWith(s, old)
         THEN new \o Replace(SubSeq(s, Len(old) + 1, Len(s)), old, new)
         ELSE <<Head(s)>> \o Replace(Tail(s), old, new)

RECURSIVE SplitFrom(_, _, _)
SplitFrom(s, sep, cur) ==
    IF s = <<>> THEN <<cur>>
    ELSE IF Head(s) = sep THEN <<cur>> \o SplitFrom(Tail(s), sep, <<>>)
         ELSE SplitFrom(Tail(s), sep, Append(cur, Head(s)))

\* s.split(sep) for a one-character separator; "".split(".") is [""].
Split(s, sep) == SplitFrom(s, sep, <<>>)

\* The letters that occur in the method names of the configurations.
UpperChar(c) ==
    CASE c = "g" -> "G" [] c = "e" -> "E" [] c = "t" -> "T"
      [] c = "p" -> "P" [] c = "o" -> "O" [] c = "s" -> "S"
      [] OTHER -> c

\* s.upper()
Upper(s) == [i \in 1..Len(s) |-> UpperChar(s[i])]

\* The placeholder tokens.
TsToken == <<"{", "t", "s", "}">>
PageToken == <<"{", "p", "a", "g", "e", "}">>
OidToken == <<"{", "o", "i", "d", "}">>

(* ------------------------- JSON body templates ------------------------- *)

IsDigit(c) == \E i \in 1..10 : Digits[i] = c

DigitVal(c) == (CHOOSE i \in 1..10 : Digits[i] = c) - 1

RECURSIVE IntOf(_)
IntOf(s) ==
    IF Len(s) = 1 THEN DigitVal(s[1])
    ELSE 10 * IntOf(SubSeq(s, 1, Len(s) - 1)) + DigitVal(s[Len(s)])

\* A JSON integer literal: digits, no leading zero.
IsJsonInt(s) ==
    /\ s # <<>>
    /\ \A i \in 1..Len(s) : IsDigit(s[i])
    /\ (Len(s) > 1 => s[1] # "0")

\* json.loads on the texts the body templates of the configurations can
\* become: "{}" and {"<key>":<integer>}; every other text of this shape
\* family is malformed and json.loads raises (ok = FALSE).
JsonLoads(s) ==
    IF s = <<"{", "}">> THEN [ok |-> TRUE, v |-> EmptyMap]
    ELSE IF /\ Len(s) >= 6
            /\ s[1] = "{" /\ s[2] = "\"" /\ s[Len(s)] = "}"
            /\ \E q \in 3..(Len(s) - 3) :
                 /\ s[q] = "\""
                 /\ \A j \in 3..(q - 1) : s[j] # "\""
                 /\ s[q + 1] = ":"
                 /\ IsJsonInt(SubSeq(s, q + 2, Len(s) - 1))
         THEN LET q == CHOOSE q \in 3..(Len(s) - 3) :
                         /\ s[q] = "\""
                         /\ \A j \in 3..(q - 1) : s[j] # "\""
              IN [ok |-> TRUE,
                  v |-> PMap(SubSeq(s, 3, q - 1)
                             :> PInt(IntOf(SubSeq(s, q + 2, Len(s) - 1))))]
         ELSE [ok |-> FALSE, v |-> EmptyMap]

(* --------------------------- path resolution --------------------------- *)

RECURSIVE WalkList(_, _)
\* The loop of fetch_json_api over list_path.split("."): items.get(key, [])
\* raises AttributeError (ok = FALSE) when items is not a dict.
WalkList(x, segs) ==
    IF segs = <<>> THEN [ok |-> TRUE, v |-> x]
    ELSE IF x.t # "map" THEN [ok |-> FALSE, v |-> x]
         ELSE WalkList(DictGet(x, Head(segs), PList(<<>>)), Tail(segs))

RECURSIVE WalkField(_, _)
\* The loops of parse_items over a path: x.get(key, "") on a dict, "" on
\* anything else.
WalkField(x, segs) ==
    IF segs = <<>> THEN x
    ELSE WalkField(IF x.t = "map" THEN DictGet(x, Head(segs), PStr(<<>>))
                   ELSE PStr(<<>>),
                   Tail(segs))

\* str(x) for the identifier values the endpoints serve.
PyStr(x) ==
    CASE x.t = "str" -> x.v
      [] x.t = "int" -> DecimalOf(x.v)

(* ----------------------------- parse_items ----------------------------- *)

DefaultTitlePath == <<"t", "i", "t", "l", "e">>
DefaultSummaryPath == <<"d", "e", "s", "c", "r", "i", "p", "t", "i", "o", "n">>
DefaultOidPath == <<"o", "i", "d">>
DefaultListPath == <<"d", "a", "t", "a">>

\* The record parse_items builds for one raw item, given the segments of
\* the three paths and the url template (score 0.9 kept as text).
RecordOf(item, title_segs, summary_segs, oid_segs, url_template) ==
    LET title == WalkField(item, title_segs)
        summary == WalkField(item, summary_segs)
        oid == WalkField(item, oid_segs)
        url == IF Truthy(oid)
               THEN Replace(url_template, OidToken, PyStr(oid))
               ELSE <<>>
    IN [title |-> title, content |-> summary, url |-> url,
        score |-> "0.9", source |-> "AIbase"]

RECURSIVE ParseLoopUntilUntitled(_, _, _, _, _)
\* Variant: the loop left at the first item without a title.
ParseLoopUntilUntitled(items, title_segs, summary_segs, oid_segs, url_template) ==
    IF items = <<>> THEN <<>>
    ELSE LET r == RecordOf(Head(items), title_segs, summary_segs, oid_segs, url_template)
         IN IF Truthy(r.title)
            THEN <<r>> \o ParseLoopUntilUntitled(Tail(items), title_segs, summary_segs,
                                                 oid_segs, url_template)
            ELSE <<>>

RECURSIVE ParseLoop(_, _, _, _, _)
\* The loop of parse_items: a record for every item whose title is truthy.
ParseLoop(items, title_segs, summary_segs, oid_segs, url_template) ==
    IF items = <<>> THEN <<>>
    ELSE LET r == RecordOf(Head(items), title_segs, summary_segs, oid_segs, url_template)
         IN (IF Truthy(r.title) THEN <<r>> ELSE <<>>)
            \o ParseLoop(Tail(items), title_segs, summary_segs, oid_segs, url_template)

parse_items(items, config) ==
    ParseLoop(items,
              Split(Get(config, "title_path", DefaultTitlePath), "."),
              Split(Get(config, "summary_path", DefaultSummaryPath), "."),
              Split(Get(config, "oid_path", DefaultOidPath), "."),
              Get(config, "url_template", <<>>))

(* --------------------------- configurations ---------------------------- *)

ApiUrl == <<"h", "t", "t", "p", "s", ":", "/", "/", "x", "/", "a", "p", "i">>
DataItems == <<"d", "a", "t", "a", ".", "i", "t", "e", "m", "s">>
UrlTemplate == <<"/", "n", "/", "{", "o", "i", "d", "}">>
BodyTemplate == <<"{", "\"", "p", "\"", ":", "{", "p", "a", "g", "e", "}", "}">>

\* The scenario source: GET by default, no `enabled` key, the item list
\* at data.items, titles at t, two pages at most; its header and its
\* parameters are templated and one parameter is not a string.
Scenario ==
    [name |-> "scenario",
     api |-> [api_url |-> ApiUrl,
              headers |-> [Stamp |-> PStr(TsToken)],
              params |-> [page |-> PStr(PageToken), size |-> PInt(2)],
              list_path |-> DataItems, title_path |-> <<"t">>,
              max_pages |-> 2]]

\* A POST source configured under `pagination`, whose body template
\* carries the page placeholder; every path and max_pages are left to
\* their defaults.
Posted ==
    [name |-> "posted", enabled |-> TRUE,
     pagination |-> [api_url |-> ApiUrl, method |-> <<"p", "o", "s", "t">>,
                     params |-> [json |-> PStr(BodyTemplate)],
                     url_template |-> UrlTemplate]]

\* A disabled source whose other fields would make a fetch fail.
Disabled ==
    [name |-> "disabled", enabled |-> FALSE,
     api |-> [api_url |-> ApiUrl, headers |-> [Depth |-> PInt(1)],
              max_pages |-> 2]]

\* An enabled source with an empty endpoint.
NoEndpoint ==
    [name |-> "noendpoint", enabled |-> TRUE,
     api |-> [api_url |-> <<>>, headers |-> [Depth |-> PInt(1)],
              title_path |-> <<"t">>, max_pages |-> 2]]

\* An enabled source with neither `api` nor `pagination`.
NoApi == [name |-> "noapi", enabled |-> TRUE]

\* An enabled source with a non-string header value.
BadHeader ==
    [name |-> "badheader", enabled |-> TRUE,
     api |-> [api_url |-> ApiUrl, headers |-> [Depth |-> PInt(1)],
              list_path |-> DataItems, title_path |-> <<"t">>,
              max_pages |-> 2]]

SourceCatalogue ==
    <<Scenario, Posted, Disabled, NoEndpoint, NoApi, BadHeader>>

\* max_items values given to collect (20 is the default of the signature).
MaxItemsValues == {0, 3, 20}

\* Values of str(int(time.time() * 1000)) at the start of a fetch.
TsValues == {<<"1", "7">>}

(* ----------------------------- endpoints ------------------------------- *)

\* What one HTTP call can come back with: the call raises (transport error
\* or timeout), raise_for_status raises (non-2xx), response.json() raises
\* (malformed body), or the body decodes to a document whose item list is
\* empty, missing, or holds the items of the page.
ResponseKinds == {"transport", "http_error", "badjson", "empty", "nolist", "items"}

FailureKinds == {"transport", "http_error", "badjson"}

\* A source is named by its group and its position in the group; the titles
\* its endpoint serves begin with that name ("d1", "w2").
Tag(id) == <<IF id.g = "daily" THEN "d" ELSE "w">> \o DecimalOf(id.i)

\* The raw item served by the endpoint of source id as item c of its n-th
\* answer; its title names all three.
Item(id, n, c) ==
    PMap((<<"t">> :> PStr(Tag(id) \o DecimalOf(n) \o <<c>>))
         @@ (<<"t", "i", "t", "l", "e">> :> PStr(Tag(id) \o DecimalOf(n) \o <<c>>))
         @@ (<<"o", "i", "d">> :> (IF c = "a" THEN PInt(n) ELSE PInt(0))))

\* A raw item without any title.
Untitled == PMap(<<"o", "i", "d">> :> PStr(<<"z">>))

\* The items of the n-th answer: two titled items first, then an untitled
\* item before a titled one, then a non-mapping item before a titled one.
PageItems(id, n) ==
    CASE n = 1 -> <<Item(id, n, "a"), Item(id, n, "b")>>
      [] n = 2 -> <<Untitled, Item(id, n, "a")>>
      [] OTHER -> <<PInt(5), Item(id, n, "a")>>

RECURSIVE Nest(_, _)
\* The document that holds leaf at the given path.
Nest(segs, leaf) ==
    IF segs = <<>> THEN leaf
    ELSE PMap(Head(segs) :> Nest(Tail(segs), leaf))

\* The decoded body of a response of the given kind, for an endpoint that
\* keeps its item list at the given path.
Decoded(kind, list_segs, id, n) ==
    CASE kind = "empty" -> Nest(list_segs, PList(<<>>))
      [] kind = "nolist" -> EmptyMap
      [] kind = "items" -> Nest(list_segs, PList(PageItems(id, n)))

(* ------------------------------- state --------------------------------- *)

VARIABLES
    sources_config,  \* NewsCollector.sources_config; each source is held
                     \* as its position in SourceCatalogue
    max_items,       \* the argument of collect
    pc,              \* "loop": at the head of the source loops of collect;
                     \* "page": at the head of the page loop of
                     \* fetch_json_api; "done": collect returned;
                     \* "raised": an exception left collect
    idx,             \* how many sources the loops of collect have passed,
                     \* plus one
    page,            \* loop variable of fetch_json_api
    ts,              \* local ts of fetch_json_api
    final_headers,   \* local final_headers of fetch_json_api
    final_params,    \* local final_params of fetch_json_api
    all_items,       \* local all_items of fetch_json_api
    all_articles,    \* local all_articles of collect
    result,          \* the value collect returned
    http_log,        \* the calls made on the session, in order, each with
                     \* the line fetch_json_api logged for its answer
    fetched          \* for each source fetched, in order: what
                     \* fetch_json_api and fetch returned

\* DailyNewsCollector.categorize_article, called on one article.
VARIABLES
    article,         \* the title and the content passed to categorize_article
    classify_pc,     \* "idle": no call is modelled; "ready": before the
                     \* call; "returned": after it; "again": after a second
                     \* call on the same article
    category,        \* what the call returned
    category_again   \* what the second call returned

collect_vars == <<sources_config, max_items, pc, idx, page, ts, final_headers,
                  final_params, all_items, all_articles, result, http_log,
                  fetched>>

\* WebFetcher.parse_items, called on one list of raw items.
VARIABLES
    raw_items,       \* the argument items
    parse_config,    \* the argument config
    parse_pc,        \* "idle", "ready" or "returned"
    parsed           \* the list parse_items returned

\* The two loops over the segments of a dotted path, run on one document.
VARIABLES
    document,        \* the value the loop starts from
    path,            \* the dotted path
    resolve_pc,      \* "idle", "ready" or "resolved"
    resolved         \* which loop ran, whether it came to its end (ok)
                     \* or raised, and the value it ended with

\* DailyNewsCollector.collect_daily_news.
VARIABLES
    client,          \* whether self.client is set
    daily_pc,        \* "idle"; "topics": in the loop over DAILY_TOPICS;
                     \* "done": collect_daily_news returned
    topic_idx,       \* the position in DAILY_TOPICS the loop is at
    topics,          \* all_results["topics"], a dict: its items in
                     \* insertion order
    last_result,     \* local result, as the last iteration left it
    search_log,      \* for each topic passed, how its search went:
                     \* "unsent", "failed" or "ok"
    batch            \* the ai_answer and the articles of the value returned

\* WeChatClient.get_access_token, over calls and clock advances.
VARIABLES
    access_token,    \* self.access_token; NoToken stands for None
    token_expires_at, \* self.token_expires_at
    now,             \* time.time(), in seconds
    token_requests,  \* how many token requests were sent
    token_calls,     \* how many calls of get_access_token were made
    clock_ticks,     \* how many times the clock advanced
    call             \* the last call of get_access_token: its argument
                     \* force_refresh, what it did ("cached", "requested"
                     \* or "raised"), the response and what it returned

classify_vars == <<article, classify_pc, category, category_again>>

daily_vars == <<client, daily_pc, topic_idx, topics, last_result, search_log,
                batch>>

token_vars == <<access_token, token_expires_at, now, token_requests,
                token_calls, clock_ticks, call>>

parse_vars == <<raw_items, parse_config, parse_pc, parsed>>

resolve_vars == <<document, path, resolve_pc, resolved>>

\* The state of the entry points other than NewsCollector.collect.
other_vars ==
    <<classify_vars, parse_vars, resolve_vars, daily_vars, token_vars>>

\* The state of the entry points other than categorize_article.
beside_classify ==
    <<collect_vars, parse_vars, resolve_vars, daily_vars, token_vars>>

\* The state of the entry points other than parse_items.
beside_parse ==
    <<collect_vars, classify_vars, resolve_vars, daily_vars, token_vars>>

\* The state of the entry points other than the path loops.
beside_resolve ==
    <<collect_vars, classify_vars, parse_vars, daily_vars, token_vars>>

\* The state of the entry points other than collect_daily_news.
beside_daily ==
    <<collect_vars, classify_vars, parse_vars, resolve_vars, token_vars>>

\* The state of the entry points other than get_access_token.
beside_token ==
    <<collect_vars, classify_vars, parse_vars, resolve_vars, daily_vars>>

vars == <<collect_vars, classify_vars, parse_vars, resolve_vars, daily_vars,
          token_vars>>

\* No call of categorize_article is modelled.
ClassifyIdle ==
    /\ article = [title |-> <<>>, content |-> <<>>]
    /\ classify_pc = "idle"
    /\ category = <<>>
    /\ category_again = <<>>

\* No call of parse_items is modelled.
ParseIdle ==
    /\ raw_items = <<>>
    /\ parse_config = <<>>
    /\ parse_pc = "idle"
    /\ parsed = <<>>

\* No path loop is modelled.
ResolveIdle ==
    /\ document = EmptyMap
    /\ path = <<>>
    /\ resolve_pc = "idle"
    /\ resolved = <<>>

\* No call of collect_daily_news is modelled.
DailyIdle ==
    /\ client = FALSE
    /\ daily_pc = "idle"
    /\ topic_idx = 1
    /\ topics = <<>>
    /\ last_result = <<>>
    /\ search_log = <<>>
    /\ batch = <<>>

\* self.access_token = None: falsy, like an empty string.
NoToken == <<>>

\* No call of get_access_token is modelled.
TokenIdle ==
    /\ access_token = NoToken
    /\ token_expires_at = 0
    /\ now = 0
    /\ token_requests = 0
    /\ token_calls = 0
    /\ clock_ticks = 0
    /\ call = <<>>

\* Only NewsCollector.collect runs.
OthersIdle ==
    ClassifyIdle /\ ParseIdle /\ ResolveIdle /\ DailyIdle /\ TokenIdle

\* All lists of 0..n sources of the catalogue, by catalogue position.
SourceLists(n) == UNION {[1..k -> 1..Len(SourceCatalogue)] : k \in 0..n}

Init ==
    /\ \E daily \in SourceLists(MaxSources), web \in SourceLists(MaxSources) :
         /\ Len(daily) + Len(web) <= MaxSources
         /\ sources_config = [daily |-> daily, web |-> web]
    /\ max_items \in MaxItemsValues
    /\ pc = "loop"
    /\ idx = 1
    /\ page = 0
    /\ ts = <<>>
    /\ final_headers = <<>>
    /\ final_params = <<>>
    /\ all_items = <<>>
    /\ all_articles = <<>>
    /\ result = <<>>
    /\ http_log = <<>>
    /\ fetched = <<>>
    /\ OthersIdle

\* Variant: the `web` loop placed before the `daily` loop.
GroupOrderWebFirst == <<"web", "daily">>

\* The order of the two loops of collect.
GroupOrder == <<"daily", "web">>

\* The sources of one group, in declared order.
IdsOf(g) == [i \in 1..Len(Get(sources_config, g, <<>>)) |-> [g |-> g, i |-> i]]

\* The sources in the order collect reaches them.
Visit == IdsOf(GroupOrder[1]) \o IdsOf(GroupOrder[2])

NumSources == Len(Visit)

CurrentId == Visit[idx]

SourceOf(id) == SourceCatalogue[sources_config[id.g][id.i]]

CurrentSource == SourceOf(CurrentId)

\* fetch: the `api` mapping, or `pagination` when `api` is absent or empty.
ApiConfig(source) ==
    LET api == Get(source, "api", <<>>)
    IN IF DOMAIN api # {} THEN api ELSE Get(source, "pagination", <<>>)

\* Variant: the `enabled` flag is not consulted.
EnabledAlways(source) == TRUE

\* collect: source.get("enabled", True)
Enabled(source) == Get(source, "enabled", TRUE)

\* Variant: range(1, max_pages + 2), one page too many.
MaxPagesOneMore(config) == Get(config, "max_pages", 3) + 1

\* fetch_json_api: config.get("max_pages", 3), the bound of the page loop.
MaxPages(config) == Get(config, "max_pages", 3)

Method(config) == Upper(Get(config, "method", <<"G", "E", "T">>))

\* Variant: all_articles[:max_items + 1].
SliceOneMore(s, k) == SubSeq(s, 1, IF k + 1 < Len(s) THEN k + 1 ELSE Len(s))

\* all_articles[:max_items]
Slice(s, k) ==
    IF k >= 0 THEN SubSeq(s, 1, IF k < Len(s) THEN k ELSE Len(s))
    ELSE SubSeq(s, 1, IF Len(s) + k > 0 THEN Len(s) + k ELSE 0)

(* ------------------------------ actions -------------------------------- *)

\* fetch returns: parse_items over the raw items fetch_json_api returned,
\* then collect extends all_articles and moves to the next source.
ReturnFromFetch(items) ==
    LET articles == parse_items(items, ApiConfig(CurrentSource))
    IN /\ all_articles' = all_articles \o articles
       /\ fetched' = Append(fetched, [src |-> CurrentId, items |-> items,
                                      articles |-> articles])
       /\ idx' = idx + 1
       /\ pc' = "loop"
       /\ page' = 0
       /\ ts' = <<>>
       /\ final_headers' = <<>>
       /\ final_params' = <<>>
       /\ all_items' = <<>>

\* collect: a source with a false `enabled` is passed over.
SkipDisabled ==
    /\ pc = "loop"
    /\ idx <= NumSources
    /\ ~Enabled(CurrentSource)
    /\ idx' = idx + 1
    /\ UNCHANGED <<other_vars, sources_config, max_items, pc, page, ts, final_headers,
                   final_params, all_items, all_articles, result, http_log,
                   fetched>>

\* fetch: no api configuration, fetch_json_api is not called.
FetchNoApi ==
    /\ pc = "loop"
    /\ idx <= NumSources
    /\ Enabled(CurrentSource)
    /\ DOMAIN ApiConfig(CurrentSource) = {}
    /\ all_articles' = all_articles
    /\ fetched' = Append(fetched, [src |-> CurrentId, items |-> <<>>,
                                   articles |-> <<>>])
    /\ idx' = idx + 1
    /\ UNCHANGED <<other_vars, sources_config, max_items, pc, page, ts, final_headers,
                   final_params, all_items, result, http_log>>

\* fetch_json_api: `if not api_url`.
NoUrl(config) == Get(config, "api_url", <<>>) = <<>>

\* fetch_json_api: empty api_url, return [] before anything else.
FetchNoUrl ==
    /\ pc = "loop"
    /\ idx <= NumSources
    /\ Enabled(CurrentSource)
    /\ DOMAIN ApiConfig(CurrentSource) # {}
    /\ NoUrl(ApiConfig(CurrentSource))
    /\ ReturnFromFetch(<<>>)
    /\ UNCHANGED <<other_vars, sources_config, max_items, result, http_log>>

\* Some header value has no replace method (it is not a string).
HeadersRaise(config) ==
    LET headers == Get(config, "headers", <<>>)
    IN \E k \in DOMAIN headers : headers[k].t # "str"

\* Variant: the header loop placed before the api_url test.
RaisesBeforeUrlTest(config) == HeadersRaise(config)

\* The header loop runs only after the api_url test let the call through.
RaisesBeforeLoop(config) == ~NoUrl(config) /\ HeadersRaise(config)

\* fetch_json_api: the header loop raises AttributeError outside any try;
\* neither fetch nor collect catches it.
FetchRaise ==
    /\ pc = "loop"
    /\ idx <= NumSources
    /\ Enabled(CurrentSource)
    /\ DOMAIN ApiConfig(CurrentSource) # {}
    /\ RaisesBeforeLoop(ApiConfig(CurrentSource))
    /\ pc' = "raised"
    /\ UNCHANGED <<other_vars, sources_config, max_items, idx, page, ts, final_headers,
                   final_params, all_items, all_articles, result, http_log,
                   fetched>>

\* final_headers of fetch_json_api: {ts} replaced in every value.
FinalHeaders(config, t) ==
    LET headers == Get(config, "headers", <<>>)
    IN [k \in DOMAIN headers |-> PStr(Replace(headers[k].v, TsToken, t))]

\* final_params of fetch_json_api: {ts} and then {page} replaced in every
\* string value, the page placeholder by "1"; other values kept as they are.
FinalParams(config, t) ==
    LET params == Get(config, "params", <<>>)
    IN [k \in DOMAIN params |->
          IF params[k].t = "str"
          THEN PStr(Replace(Replace(params[k].v, TsToken, t), PageToken, <<"1">>))
          ELSE params[k]]

\* fetch_json_api up to the page loop.
FetchBegin ==
    /\ pc = "loop"
    /\ idx <= NumSources
    /\ Enabled(CurrentSource)
    /\ DOMAIN ApiConfig(CurrentSource) # {}
    /\ ~NoUrl(ApiConfig(CurrentSource))
    /\ ~HeadersRaise(ApiConfig(CurrentSource))
    /\ \E t \in TsValues :
         IF MaxPages(ApiConfig(CurrentSource)) >= 1
         THEN /\ ts' = t
              /\ final_headers' = FinalHeaders(ApiConfig(CurrentSource), t)
              /\ final_params' = FinalParams(ApiConfig(CurrentSource), t)
              /\ all_items' = <<>>
              /\ page' = 1
              /\ pc' = "page"
              /\ UNCHANGED <<idx, all_articles, fetched>>
         ELSE ReturnFromFetch(<<>>)
    /\ UNCHANGED <<other_vars, sources_config, max_items, result, http_log>>

\* page_params of one iteration: {page} replaced by str(page) in the string
\* values of final_params.
PageParams(params, p) ==
    [k \in DOMAIN params |->
       IF params[k].t = "str"
       THEN PStr(Replace(params[k].v, PageToken, DecimalOf(p)))
       ELSE params[k]]

\* The json argument of session.post: final_params.get("json", "{}") with
\* {ts} and {page} replaced, then json.loads.  ok = FALSE when the value has
\* no replace method or the text is malformed (raised inside the try).
PostBody(params, t, p) ==
    LET template == Get(params, "json", PStr(<<"{", "}">>))
    IN IF template.t # "str" THEN [ok |-> FALSE, v |-> EmptyMap]
       ELSE JsonLoads(Replace(Replace(template.v, TsToken, t), PageToken, DecimalOf(p)))

\* The call made on the session in iteration p.
RequestOf(config, params, headers, t, p) ==
    IF Method(config) = <<"P", "O", "S", "T">>
    THEN [src |-> CurrentId, page |-> p, method |-> "POST",
          payload |-> PostBody(params, t, p).v, headers |-> headers]
    ELSE [src |-> CurrentId, page |-> p, method |-> "GET",
          payload |-> PageParams(params, p), headers |-> headers]

\* What the body of the try does with a decoded document: the line it logs
\* ("error": the except clause; "nodata": `not items`; "data": the items
\* were appended) and the items it appends.
Extracted(data, list_segs) ==
    LET w == WalkList(data, list_segs)
    IN IF ~w.ok THEN [log |-> "error", items |-> <<>>]
       ELSE IF ~Truthy(w.v) THEN [log |-> "nodata", items |-> <<>>]
       ELSE IF w.v.t = "list" THEN [log |-> "data", items |-> w.v.v]
       ELSE [log |-> "error", items |-> <<>>]

\* Variant: `except requests.RequestException`, which lets the decoding
\* error of response.json() through.
CaughtTransportOnly(kind) == kind \in {"transport", "http_error"}

\* `except Exception` catches every failure of the call and of the decoding.
Caught(kind) == kind \in FailureKinds

\* Variant: `continue` in place of `break` in the `not items` branch.
GoesOnAfterEmpty(log) == log # "error"

\* Variant: `continue` in place of `break` in the except clause.
GoesOnAfterError(log) == log # "nodata"

\* The page loop goes on only after a page whose items were appended: the
\* `not items` branch and the except clause both break.
GoesOn(log) == log = "data"

\* One iteration of the page loop: the call, its answer, and what the loop
\* does with it (break, or append the items and go to the next page; after
\* the last page fetch_json_api returns).  When the POST body cannot be
\* built the except clause breaks before any call is made.
PageRequest ==
    /\ pc = "page"
    /\ LET config == ApiConfig(CurrentSource)
           list_segs == Split(Get(config, "list_path", DefaultListPath), ".")
           req == RequestOf(config, final_params, final_headers, ts, page)
       IN IF Method(config) = <<"P", "O", "S", "T">> /\ ~PostBody(final_params, ts, page).ok
          THEN ReturnFromFetch(all_items) /\ UNCHANGED http_log
          ELSE
          \E kind \in ResponseKinds :
            LET got == IF kind \in FailureKinds
                       THEN [log |-> "error", items |-> <<>>]
                       ELSE Extracted(Decoded(kind, list_segs, CurrentId, page), list_segs)
            IN /\ http_log' = Append(http_log, [req |-> req, log |-> got.log])
               /\ IF kind \in FailureKinds /\ ~Caught(kind)
                  THEN /\ pc' = "raised"
                       /\ UNCHANGED <<idx, page, ts, final_headers, final_params,
                                      all_items, all_articles, fetched>>
                  ELSE IF GoesOn(got.log) /\ page < MaxPages(config)
                  THEN /\ all_items' = all_items \o got.items
                       /\ page' = page + 1
                       /\ UNCHANGED <<pc, idx, ts, final_headers, final_params,
                                      all_articles, fetched>>
                  ELSE ReturnFromFetch(all_items \o got.items)
    /\ UNCHANGED <<other_vars, sources_config, max_items, result>>

\* collect: both loops are over, return all_articles[:max_items].
Return ==
    /\ pc = "loop"
    /\ idx > NumSources
    /\ result' = Slice(all_articles, max_items)
    /\ pc' = "done"
    /\ UNCHANGED <<other_vars, sources_config, max_items, idx, page, ts, final_headers,
                   final_params, all_items, all_articles, http_log, fetched>>

Next ==
    \/ SkipDisabled
    \/ FetchNoApi
    \/ FetchNoUrl
    \/ FetchRaise
    \/ FetchBegin
    \/ PageRequest
    \/ Return

Spec == Init /\ [][Next]_vars

TypeOK ==
    /\ pc \in {"loop", "page", "done", "raised"}
    /\ idx \in 1..(NumSources + 1)
    /\ page \in 0..4

(* ------------------------ vocabulary of the claims --------------------- *)

Groups == {"daily", "web"}

\* Every configured source, enabled or not.
AllIds ==
    UNION {{[g |-> g, i |-> i] : i \in 1..Len(sources_config[g])} : g \in Groups}

\* a is declared before b: `daily` before `web`, then list order.
Before(a, b) ==
    \/ a.g = "daily" /\ b.g = "web"
    \/ a.g = b.g /\ a.i < b.i

ConfigOf(id) == ApiConfig(SourceOf(id))

IsDisabled(id) ==
    /\ "enabled" \in DOMAIN SourceOf(id)
    /\ SourceOf(id).enabled = FALSE

\* The api mapping is absent, or has no api_url, or an empty one.
EndpointAbsent(id) ==
    \/ "api_url" \notin DOMAIN ConfigOf(id)
    \/ ConfigOf(id).api_url = <<>>

\* The calls made for one source, in the order they were made.
LogOf(id) == SelectSeq(http_log, LAMBDA e : e.req.src = id)

HasReturned(id) == \E j \in 1..Len(fetched) : fetched[j].src = id

ReturnOf(id) == fetched[CHOOSE j \in 1..Len(fetched) : fetched[j].src = id]

ArticlesOf(id) == IF HasReturned(id) THEN ReturnOf(id).articles ELSE <<>>

HasError(id) == \E n \in 1..Len(LogOf(id)) : LogOf(id)[n].log = "error"

RECURSIVE PagesUpTo(_, _)
\* The items the endpoint of id serves on pages 1..n, in order.
PagesUpTo(id, n) ==
    IF n = 0 THEN <<>> ELSE PagesUpTo(id, n - 1) \o PageItems(id, n)

RECURSIVE DataOf(_, _)
\* The items of the answers of id that carried data, in call order.
DataOf(id, log) ==
    IF log = <<>> THEN <<>>
    ELSE DataOf(id, SubSeq(log, 1, Len(log) - 1))
         \o (IF log[Len(log)].log = "data"
             THEN PageItems(id, log[Len(log)].req.page) ELSE <<>>)

RECURSIVE GroupArticles(_, _)
\* The records of the first n sources of group g, in declared order.
GroupArticles(g, n) ==
    IF n = 0 THEN <<>>
    ELSE GroupArticles(g, n - 1) \o ArticlesOf([g |-> g, i |-> n])

\* The records of all sources in declared order: daily, then web.
DeclaredConcat ==
    GroupArticles("daily", Len(sources_config["daily"]))
    \o GroupArticles("web", Len(sources_config["web"]))

\* The number of records of the sources declared before id.
OffsetOf(id) ==
    IF id.g = "daily" THEN Len(GroupArticles("daily", id.i - 1))
    ELSE Len(GroupArticles("daily", Len(sources_config["daily"])))
         + Len(GroupArticles("web", id.i - 1))

TitleIsFrom(r, id) == r.title.t = "str" /\ StartsWith(r.title.v, Tag(id))

(* -------------------------------- claims ------------------------------- *)

\* C1: pagination stops at the first empty page.  When the first n-1 calls
\* of a source brought data and the n-th brought an empty list, the n-th
\* call is the last one made for that source, the calls were for pages
\* 1..n, and fetch_json_api returned exactly the items of pages 1..n-1.
C1_StopsAtFirstEmptyPage ==
    \A id \in AllIds :
      LET L == LogOf(id)
      IN \A n \in 1..Len(L) :
           (L[n].log = "nodata" /\ \A j \in 1..(n - 1) : L[j].log = "data")
           => /\ Len(L) = n
              /\ \A j \in 1..n : L[j].req.page = j
              /\ HasReturned(id)
              /\ ReturnOf(id).items = PagesUpTo(id, n - 1)

\* The scenario: one source with max_pages 2, data then an empty page; two
\* calls were made and collect returned the two records of page 1.
C1_Witness ==
    /\ pc = "done"
    /\ sources_config["web"] = <<>>
    /\ Len(sources_config["daily"]) = 1
    /\ SourceOf([g |-> "daily", i |-> 1]).name = "scenario"
    /\ Len(http_log) = 2
    /\ http_log[1].log = "data"
    /\ http_log[2].log = "nodata"
    /\ Len(result) = 2
    /\ result[1].title = PStr(<<"d", "1", "1", "a">>)
    /\ result[2].title = PStr(<<"d", "1", "1", "b">>)

\* What the call for page p of a source should carry: every {page} of the
\* configured string parameters (GET) or of the body template (POST)
\* replaced by str(p).
CarriesPage(e) ==
    LET params == Get(ConfigOf(e.src), "params", <<>>)
        template == Get(params, "json", PStr(<<"{", "}">>))
    IN IF e.method = "GET"
       THEN \A k \in DOMAIN params :
              params[k].t = "str"
              => \E t \in TsValues :
                   e.payload[k] = PStr(Replace(Replace(params[k].v, TsToken, t),
                                               PageToken, DecimalOf(e.page)))
       ELSE \E t \in TsValues :
              e.payload = JsonLoads(Replace(Replace(template.v, TsToken, t),
                                            PageToken, DecimalOf(e.page))).v

\* C2: the call made for page p carries p in place of every {page}
\* placeholder of the parameters and of the body template.
C2_RequestCarriesPage ==
    \A n \in 1..Len(http_log) : CarriesPage(http_log[n].req)

\* C3: no exception leaves collect.
C3_CollectNeverFails == pc # "raised"

\* C4: failure isolation.  A call that fails ends the fetch of its source
\* only: collect goes on with the next source and keeps the records it
\* had.  Every source collect reaches after a source with a failed call is
\* fetched from its own page 1 and yields exactly the records of its own
\* answers; when collect returns untruncated these records stand in the
\* output at their declared place, and every enabled source was fetched.
C4_LaterSourcesUnaffected ==
    \A a \in AllIds : \A b \in AllIds :
      (Before(a, b) /\ HasError(a) /\ HasReturned(b))
      => /\ \A n \in 1..Len(LogOf(b)) : LogOf(b)[n].req.page = n
         /\ ReturnOf(b).items = DataOf(b, LogOf(b))
         /\ ReturnOf(b).articles = parse_items(DataOf(b, LogOf(b)), ConfigOf(b))
         /\ (pc = "done" /\ Len(all_articles) <= max_items)
            => SubSeq(result, OffsetOf(b) + 1,
                      OffsetOf(b) + Len(ReturnOf(b).articles))
               = ReturnOf(b).articles

C4_FailureIsolation ==
    /\ []C4_LaterSourcesUnaffected
    /\ [][/\ (/\ pc = "page"
              /\ Len(http_log') = Len(http_log) + 1
              /\ http_log'[Len(http_log')].log = "error")
             => /\ pc' = "loop"
                /\ idx' = idx + 1
                /\ \E id \in AllIds : id = CurrentId /\ HasReturned(id)'
                /\ Len(all_articles') >= Len(all_articles)
                /\ SubSeq(all_articles', 1, Len(all_articles)) = all_articles
          /\ (pc' = "done"
              => \A b \in AllIds : ~IsDisabled(b) => HasReturned(b)')]_vars

\* A source whose call failed, a later source with records, and the
\* records of the later source in the output of collect.
C4_Witness ==
    /\ pc = "done"
    /\ Len(all_articles) <= max_items
    /\ \E a \in AllIds : \E b \in AllIds :
         /\ Before(a, b)
         /\ HasError(a)
         /\ HasReturned(b)
         /\ Len(ReturnOf(b).articles) >= 2
         /\ \E n \in 1..Len(result) : TitleIsFrom(result[n], b)

\* C5: a failed call ends the pagination of its source.  The failed call
\* is the last call made for the source, no page number was asked twice,
\* and fetch_json_api returned exactly the items of the pages before it.
C5_FailureStopsPagination ==
    \A id \in AllIds :
      LET L == LogOf(id)
      IN /\ \A i \in 1..Len(L) : \A j \in 1..Len(L) :
              i < j => L[i].req.page # L[j].req.page
         /\ \A n \in 1..Len(L) :
              L[n].log = "error"
              => /\ Len(L) = n
                 /\ L[n].req.page = n
                 /\ HasReturned(id)
                 /\ ReturnOf(id).items = PagesUpTo(id, n - 1)

\* A source whose second call failed after a first page of two items.
C5_Witness ==
    \E id \in AllIds :
      /\ Len(LogOf(id)) = 2
      /\ LogOf(id)[1].log = "data"
      /\ LogOf(id)[2].log = "error"
      /\ HasReturned(id)
      /\ Len(ReturnOf(id).items) = 2

RECURSIVE Flatten(_)
\* The records fetch returned, source after source.
Flatten(f) ==
    IF f = <<>> THEN <<>>
    ELSE Flatten(SubSeq(f, 1, Len(f) - 1)) \o f[Len(f)].articles

\* C6: truncation law.  collect returns the first min(max_items, total)
\* records of the concatenated per-source records.
C6_TruncationLaw ==
    pc = "done"
    => LET all == Flatten(fetched)
           m == IF max_items < Len(all) THEN max_items ELSE Len(all)
       IN /\ Len(result) = m
          /\ result = SubSeq(all, 1, m)

\* collect returned three records out of more than three.
C6_Witness ==
    /\ pc = "done"
    /\ max_items = 3
    /\ Len(Flatten(fetched)) > 3
    /\ Len(result) = 3

\* C7: order law.  Absent truncation collect returns the records of the
\* sources in declared order, daily before web, and inside a source the
\* items in the order of the pages and of the items in a page.
C7_OrderLaw ==
    /\ \A id \in AllIds :
         HasReturned(id)
         => /\ ReturnOf(id).items = DataOf(id, LogOf(id))
            /\ ReturnOf(id).articles = parse_items(ReturnOf(id).items, ConfigOf(id))
    /\ (pc = "done" /\ Len(all_articles) <= max_items)
       => result = DeclaredConcat

\* Two sources with two records each: the output is [a1, a2, b1, b2].
C7_Witness ==
    /\ pc = "done"
    /\ Len(result) = 4
    /\ \E a \in AllIds : \E b \in AllIds :
         /\ Before(a, b)
         /\ Len(ArticlesOf(a)) = 2
         /\ Len(ArticlesOf(b)) = 2
         /\ result = ArticlesOf(a) \o ArticlesOf(b)
         /\ TitleIsFrom(result[1], a)
         /\ TitleIsFrom(result[3], b)

\* No call was made for a disabled source and no record of collect comes
\* from its endpoint.
C8_NoTraceOfDisabled ==
    \A id \in AllIds :
      IsDisabled(id)
      => /\ LogOf(id) = <<>>
         /\ ~HasReturned(id)
         /\ \A n \in 1..Len(all_articles) : ~TitleIsFrom(all_articles[n], id)
         /\ \A n \in 1..Len(result) : ~TitleIsFrom(result[n], id)

\* C8: a disabled source is skipped entirely.  When collect is at a
\* disabled source its next step moves to the next source and changes
\* nothing else; no call is ever made for it and no record comes from it.
C8_DisabledSkipped ==
    /\ []C8_NoTraceOfDisabled
    /\ [][(pc = "loop" /\ idx <= NumSources /\ IsDisabled(CurrentId))
          => /\ pc' = "loop"
             /\ idx' = idx + 1
             /\ UNCHANGED <<http_log, all_articles, fetched>>]_vars

\* collect returned records although a disabled source stood first.
C8_Witness ==
    /\ pc = "done"
    /\ result # <<>>
    /\ \E id \in AllIds : \E b \in AllIds :
         /\ IsDisabled(id)
         /\ Before(id, b)
         /\ ArticlesOf(b) # <<>>

\* No call was made for an enabled source without endpoint and no record
\* comes from it.
C9_NoTraceOfEndpointless ==
    \A id \in AllIds :
      (~IsDisabled(id) /\ EndpointAbsent(id))
      => /\ LogOf(id) = <<>>
         /\ ArticlesOf(id) = <<>>
         /\ \A n \in 1..Len(all_articles) : ~TitleIsFrom(all_articles[n], id)

\* C9: an empty or missing endpoint makes the fetch a no-op.  When collect
\* is at such a source its next step moves to the next source without a
\* call, a record or an exception.
C9_NoEndpointNoOp ==
    /\ []C9_NoTraceOfEndpointless
    /\ [][(/\ pc = "loop"
           /\ idx <= NumSources
           /\ ~IsDisabled(CurrentId)
           /\ EndpointAbsent(CurrentId))
          => /\ pc' = "loop"
             /\ idx' = idx + 1
             /\ UNCHANGED <<http_log, all_articles>>]_vars

\* collect returned records of a source declared after an enabled source
\* whose api_url is empty.
C9_Witness ==
    /\ pc = "done"
    /\ result # <<>>
    /\ \E id \in AllIds : \E b \in AllIds :
         /\ ~IsDisabled(id)
         /\ "api_url" \in DOMAIN ConfigOf(id)
         /\ ConfigOf(id).api_url = <<>>
         /\ Before(id, b)
         /\ ArticlesOf(b) # <<>>

\* C10: page-count bound and page order.  The calls made for one source
\* are for pages 1, 2, ..., m in this order, and m is at most max_pages
\* (3 when the configuration gives none).
C10_PageBoundAndOrder ==
    \A id \in AllIds :
      LET L == LogOf(id)
      IN /\ \A n \in 1..Len(L) : L[n].req.page = n
         /\ Len(L) <= Get(ConfigOf(id), "max_pages", 3)

\* A source without max_pages whose three pages all carried data: three
\* calls, then fetch_json_api returned.
C10_Witness ==
    \E id \in AllIds :
      /\ "max_pages" \notin DOMAIN ConfigOf(id)
      /\ Len(LogOf(id)) = 3
      /\ \A n \in 1..3 : LogOf(id)[n].log = "data"
      /\ HasReturned(id)
      /\ Len(ReturnOf(id).items) = 6

(* ====================================================================== *)
(* DailyNewsCollector.categorize_article (src/src/daily_news.py) over the  *)
(* table TECH_CATEGORIES (src/src/config.py).  A character outside ASCII   *)
(* is written as one character named by its code point: "u5927" is U+5927. *)
(* ====================================================================== *)

\* Largest number of fragments a title or a content is made of.
MaxFragments == 2

UpperLetters == <<"A", "B", "C", "D", "E", "F", "G", "H", "I", "J", "K",
                  "L", "M", "N", "O", "P", "Q", "R", "S", "T", "U", "V",
                  "W", "X", "Y", "Z">>

LowerLetters == <<"a", "b", "c", "d", "e", "f", "g", "h", "i", "j", "k",
                  "l", "m", "n", "o", "p", "q", "r", "s", "t", "u", "v",
                  "w", "x", "y", "z">>

\* str.lower() on one character: the ideographs of the table have no case.
LowerChar(c) ==
    IF \E i \in 1..Len(UpperLetters) : UpperLetters[i] = c
    THEN LowerLetters[CHOOSE i \in 1..Len(UpperLetters) : UpperLetters[i] = c]
    ELSE c

\* s.lower()
Lower(s) == [i \in 1..Len(s) |-> LowerChar(s[i])]

RECURSIVE Contains(_, _)
\* `sub in s` on strings.
Contains(s, sub) ==
    IF Len(s) < Len(sub) THEN FALSE
    ELSE IF StartsWith(s, sub) THEN TRUE
    ELSE Contains(Tail(s), sub)

\* config.TECH_CATEGORIES, a dict: its items in insertion order.
TECH_CATEGORIES ==
    <<
      [category |-> <<"u5927", "u6a21", "u578b">>,
       keywords |->
         << <<"u5927", "u6a21", "u578b">>,
            <<"L", "L", "M">>,
            <<"G", "P", "T">>,
            <<"C", "l", "a", "u", "d", "e">>,
            <<"G", "e", "m", "i", "n", "i">>,
            <<"M", "o", "E">>,
            <<"u6a21", "u578b", "u8bad", "u7ec3">>,
            <<"u6a21", "u578b", "u53d1", "u5e03">> >>],
      [category |-> <<"u5177", "u8eab", "u667a", "u80fd">>,
       keywords |->
         << <<"u5177", "u8eab", "u667a", "u80fd">>,
            <<"u673a", "u5668", "u4eba">>,
            <<"u4eba", "u5f62", "u673a", "u5668", "u4eba">>,
            <<"u81ea", "u52a8", "u9a7e", "u9a76">>,
            <<"u5177", "u8eab", "A", "I">> >>],
      [category |-> <<"u667a", "u80fd", "u4f53">>,
       keywords |->
         << <<"u667a", "u80fd", "u4f53">>,
            <<"A", "g", "e", "n", "t">>,
            <<"A", "I", " ", "A", "g", "e", "n", "t">>,
            <<"u591a", "u667a", "u80fd", "u4f53">>,
            <<"u81ea", "u4e3b", "u51b3", "u7b56">> >>],
      [category |-> <<"u5e94", "u7528", "u843d", "u5730">>,
       keywords |->
         << <<"A", "I", "u5e94", "u7528">>,
            <<"u843d", "u5730">>,
            <<"u5546", "u4e1a", "u5316">>,
            <<"u4ea7", "u54c1", "u53d1", "u5e03">>,
            <<"u884c", "u4e1a", "u5e94", "u7528">> >>],
      [category |-> <<"u7b97", "u529b", "u57fa", "u7840", "u8bbe", "u65bd">>,
       keywords |->
         << <<"u7b97", "u529b">>,
            <<"G", "P", "U">>,
            <<"u82af", "u7247">>,
            <<"u8bad", "u7ec3", "u96c6", "u7fa4">>,
            <<"u63a8", "u7406", "u4f18", "u5316">> >>],
      [category |-> <<"u5f00", "u6e90", "u52a8", "u6001">>,
       keywords |->
         << <<"u5f00", "u6e90">>,
            <<"M", "e", "t", "a">>,
            <<"L", "l", "a", "m", "a">>,
            <<"M", "i", "s", "t", "r", "a", "l">>,
            <<"Q", "w", "e", "n">>,
            <<"u6a21", "u578b", "u6743", "u91cd">> >>]
    >>

\* The category categorize_article returns when nothing matched.
DefaultCategory == <<"u5176", "u4ed6">>

\* Variant: the title and the content joined with nothing between them.
ArticleTextUnspaced(title, content) == Lower(title \o content)

\* text = (title + " " + content).lower()
ArticleText(title, content) == Lower(title \o <<" ">> \o content)

RECURSIVE AnyKeyword(_, _)
\* The inner loop of categorize_article: `if kw.lower() in text`.
AnyKeyword(text, keywords) ==
    IF keywords = <<>> THEN FALSE
    ELSE IF Contains(text, Lower(Head(keywords))) THEN TRUE
    ELSE AnyKeyword(text, Tail(keywords))

RECURSIVE ScanCategories(_, _)
\* The outer loop of categorize_article, returning at the first category
\* one of whose keywords is in the text, and the default after the loop.
ScanCategories(text, table) ==
    IF table = <<>> THEN DefaultCategory
    ELSE IF AnyKeyword(text, Head(table).keywords) THEN Head(table).category
    ELSE ScanCategories(text, Tail(table))

categorize_article(title, content) ==
    ScanCategories(ArticleText(title, content), TECH_CATEGORIES)

\* What the titles and contents of the articles are made of: pieces of
\* keywords of three categories, in the other case than the table's.
Fragments ==
    << <<"g">>, <<"p", "t">>, <<"A", "G", "E", "N", "T">>,
       <<"u5f00", "u6e90">> >>

RECURSIVE Joined(_)
\* The fragments of a list, one after the other.
Joined(fs) == IF fs = <<>> THEN <<>> ELSE Fragments[Head(fs)] \o Joined(Tail(fs))

\* The strings of at most n fragments.
Texts(n) ==
    {Joined(fs) : fs \in UNION {[1..k -> 1..Len(Fragments)] : k \in 0..n}}

\* NewsCollector.collect is not running.
CollectIdle ==
    /\ sources_config = [daily |-> <<>>, web |-> <<>>]
    /\ max_items = 0
    /\ pc = "done"
    /\ idx = 1
    /\ page = 0
    /\ ts = <<>>
    /\ final_headers = <<>>
    /\ final_params = <<>>
    /\ all_items = <<>>
    /\ all_articles = <<>>
    /\ result = <<>>
    /\ http_log = <<>>
    /\ fetched = <<>>

InitClassify ==
    /\ CollectIdle
    /\ ParseIdle
    /\ ResolveIdle
    /\ DailyIdle
    /\ TokenIdle
    /\ \E title \in Texts(MaxFragments), content \in Texts(MaxFragments) :
         article = [title |-> title, content |-> content]
    /\ classify_pc = "ready"
    /\ category = <<>>
    /\ category_again = <<>>

\* categorize_article(article["title"], article["content"])
Categorize ==
    /\ classify_pc = "ready"
    /\ category' = categorize_article(article.title, article.content)
    /\ classify_pc' = "returned"
    /\ UNCHANGED <<beside_classify, article, category_again>>

\* The same call once more.
CategorizeAgain ==
    /\ classify_pc = "returned"
    /\ category_again' = categorize_article(article.title, article.content)
    /\ classify_pc' = "again"
    /\ UNCHANGED <<beside_classify, article, category>>

NextClassify ==
    \/ Categorize
    \/ CategorizeAgain

SpecClassify == InitClassify /\ [][NextClassify]_vars

(* ------------------------------ claim C11 ------------------------------ *)

\* kw occurs in text at some position, whatever the case of its letters.
OccursIn(kw, text) ==
    \E p \in 0..(Len(text) - Len(kw)) :
      \A i \in 1..Len(kw) : LowerChar(text[p + i]) = LowerChar(kw[i])

\* The positions in the table of the categories a keyword of which occurs
\* in text.
MatchingCategories(text) ==
    {c \in 1..Len(TECH_CATEGORIES) :
       \E k \in 1..Len(TECH_CATEGORIES[c].keywords) :
         OccursIn(TECH_CATEGORIES[c].keywords[k], text)}

\* The first category of the table with a keyword in text, the default
\* category when there is none.
FirstMatch(text) ==
    LET M == MatchingCategories(text)
    IN IF M = {} THEN DefaultCategory
       ELSE TECH_CATEGORIES[CHOOSE c \in M : \A d \in M : c <= d].category

\* C11 as stated: the category returned is the first category of the
\* table with a keyword that is a case-insensitive substring of the title
\* immediately followed by the content, and the default category when no
\* category has one; a second call returns the same category.
C11_FirstMatchOnConcatenation ==
    /\ classify_pc \in {"returned", "again"} =>
         category = FirstMatch(article.title \o article.content)
    /\ classify_pc = "again" => category_again = category

\* C11 as the code has it: the text searched is the title, one space, and
\* the content, so that no keyword is found across the end of the title.
\* The category returned is the first category of the table with a keyword
\* that is a case-insensitive substring of that text, the default category
\* when there is none; it is one category of the table or the default, and
\* a second call on the same article returns the same one.
C11_FirstMatchOnSpacedText ==
    /\ classify_pc \in {"returned", "again"} =>
         /\ category = FirstMatch(article.title \o <<" ">> \o article.content)
         /\ \/ category = DefaultCategory
            \/ \E c \in 1..Len(TECH_CATEGORIES) :
                 category = TECH_CATEGORIES[c].category
    /\ classify_pc = "again" => category_again = category

\* An article matching two categories, the later one of the table first in
\* the text: the earlier category of the table is returned.
C11_Witness ==
    /\ classify_pc = "again"
    /\ article.title = <<"A", "G", "E", "N", "T">>
    /\ article.content = <<"g", "p", "t">>
    /\ MatchingCategories(article.title \o <<" ">> \o article.content) = {1, 3}
    /\ category = TECH_CATEGORIES[1].category

(* ====================================================================== *)
(* WebFetcher.parse_items (src/src/web_fetcher.py) on lists of raw items   *)
(* of every shape: with and without a title, an identifier, a summary,     *)
(* and items that are no mapping.                                          *)
(* ====================================================================== *)

\* Largest number of raw items in one list.
MaxRawItems == 2

\* The length the collectors cut a content to: content[:200].
ContentCap == 200

\* A summary one character longer than the cap.
LongSummary == [i \in 1..(ContentCap + 1) |-> "s"]

\* A raw item with the default keys: title, description, oid.
RawItem(title, description, oid) ==
    PMap((DefaultTitlePath :> title) @@ (DefaultSummaryPath :> description)
         @@ (DefaultOidPath :> oid))

\* The raw items the lists are made of.
RawItemPool ==
    << RawItem(PStr(<<"A">>), PStr(<<"s", "1">>), PInt(7)),
       PMap((DefaultTitlePath :> PStr(<<"B">>)) @@ (DefaultOidPath :> PInt(0))),
       PMap((DefaultTitlePath :> PStr(<<"C">>))
            @@ (DefaultSummaryPath :> PStr(LongSummary))),
       RawItem(PStr(<<>>), PStr(<<"s", "4">>), PStr(<<"x">>)),
       PMap(DefaultOidPath :> PInt(3)),
       PInt(5),
       PMap((<<"m">> :> RawItem(PStr(<<"D">>), PStr(<<"s", "7">>), PInt(9)))
            @@ (DefaultTitlePath :> PStr(<<>>))) >>

\* The configurations parse_items is called with: the default paths, and
\* paths of two segments.
ParseConfigs ==
    << [url_template |-> UrlTemplate],
       [title_path |-> <<"m", ".", "t", "i", "t", "l", "e">>,
        summary_path |-> <<"m", ".", "d", "e", "s", "c", "r", "i", "p", "t",
                           "i", "o", "n">>,
        oid_path |-> <<"m", ".", "o", "i", "d">>,
        url_template |-> UrlTemplate] >>

\* The lists of at most n raw items of the pool.
RawLists(n) ==
    UNION {[1..k -> 1..Len(RawItemPool)] : k \in 0..n}

InitParse ==
    /\ CollectIdle
    /\ ClassifyIdle
    /\ ResolveIdle
    /\ DailyIdle
    /\ TokenIdle
    /\ \E l \in RawLists(MaxRawItems) :
         raw_items = [i \in 1..Len(l) |-> RawItemPool[l[i]]]
    /\ \E c \in 1..Len(ParseConfigs) : parse_config = ParseConfigs[c]
    /\ parse_pc = "ready"
    /\ parsed = <<>>

\* parse_items(items, config); it has no statement that can raise on these
\* items.
ParseItems ==
    /\ parse_pc = "ready"
    /\ parsed' = parse_items(raw_items, parse_config)
    /\ parse_pc' = "returned"
    /\ UNCHANGED <<beside_parse, raw_items, parse_config>>

NextParse == ParseItems

SpecParse == InitParse /\ [][NextParse]_vars

(* ------------------------------ claim C12 ------------------------------ *)

\* The title of a raw item under the configuration of the call.
TitleOf(item) ==
    WalkField(item, Split(Get(parse_config, "title_path", DefaultTitlePath), "."))

\* The positions of the raw items with a non-empty title, in input order.
Titled == SelectSeq([i \in 1..Len(raw_items) |-> i],
                    LAMBDA i : TitleOf(raw_items[i]) # PStr(<<>>))

\* C12: normalization drops only title-less items.  parse_items returns one
\* record for each raw item whose resolved title is non-empty, in input
\* order, and none for the items whose title is empty or does not resolve;
\* the record of an item is the one parse_items returns for that item
\* alone, whatever items are dropped around it.
C12_DropsOnlyTitleless ==
    parse_pc = "returned" =>
      /\ Len(parsed) = Len(Titled)
      /\ \A j \in 1..Len(Titled) :
           /\ parsed[j].title = TitleOf(raw_items[Titled[j]])
           /\ <<parsed[j]>> = parse_items(<<raw_items[Titled[j]]>>, parse_config)

\* A list whose first item has no title and whose second has one: one
\* record, that of the second item.
C12_Witness ==
    /\ parse_pc = "returned"
    /\ Len(raw_items) = 2
    /\ TitleOf(raw_items[1]) = PStr(<<>>)
    /\ TitleOf(raw_items[2]) # PStr(<<>>)
    /\ Len(parsed) = 1
    /\ parsed[1].title = TitleOf(raw_items[2])

(* ------------------------------ claim C13 ------------------------------ *)

\* The summary of a raw item under the configuration of the call.
SummaryOf(item) ==
    WalkField(item, Split(Get(parse_config, "summary_path", DefaultSummaryPath), "."))

\* C13: the content of every record is the resolved summary cut to the cap
\* of 200 characters, so that no content is longer than the cap.
C13_ContentWithinCap ==
    parse_pc = "returned" =>
      \A j \in 1..Len(Titled) :
        LET summary == SummaryOf(raw_items[Titled[j]]).v
        IN /\ Len(parsed[j].content.v) <= ContentCap
           /\ parsed[j].content.v =
                SubSeq(summary, 1, IF Len(summary) < ContentCap
                                   THEN Len(summary) ELSE ContentCap)

(* ------------------------------ claim C14 ------------------------------ *)

\* The segments of the identifier path of the call.
OidSegs == Split(Get(parse_config, "oid_path", DefaultOidPath), ".")

RECURSIVE Present(_, _)
\* Following the segments as mapping keys from x reaches a value.
Present(x, segs) ==
    IF segs = <<>> THEN TRUE
    ELSE /\ x.t = "map"
         /\ Head(segs) \in DOMAIN x.v
         /\ Present(x.v[Head(segs)], Tail(segs))

\* C14: the url of a record is the url template with {oid} replaced by the
\* identifier of the item whenever the identifier path reaches a value in
\* the item, whatever the value (the number 0 too), and the empty string
\* exactly when the item has no identifier.
C14_UrlFromIdentifier ==
    parse_pc = "returned" =>
      \A j \in 1..Len(Titled) :
        LET item == raw_items[Titled[j]]
        IN parsed[j].url =
             IF Present(item, OidSegs)
             THEN Replace(parse_config.url_template, OidToken,
                          PyStr(WalkField(item, OidSegs)))
             ELSE <<>>

(* ====================================================================== *)
(* The two loops over the segments of a dotted path: the list path of      *)
(* fetch_json_api (web_fetcher.py 77-79) and the field paths of            *)
(* parse_items (web_fetcher.py 104-115), run on nested values.             *)
(* ====================================================================== *)

\* Largest number of mappings nested in a document.
MaxDepth == 2

\* The values that are no mapping: strings, a number, arrays.
Leaves ==
    << PStr(<<"x">>), PStr(<<>>), PInt(7),
       PList(<<PStr(<<"e", "0">>), PStr(<<"e", "1">>)>>), PList(<<>>) >>

\* Every value of a list, under one key of a mapping of its own.
Wrapped(key, values) == [i \in 1..Len(values) |-> PMap(key :> values[i])]

RECURSIVE Documents(_)
\* The decoded values of at most d nested mappings, under the keys "a" and
\* "0", with the empty mapping.
Documents(d) ==
    IF d = 0 THEN Leaves
    ELSE Leaves \o <<EmptyMap>> \o Wrapped(<<"a">>, Documents(d - 1))
           \o Wrapped(<<"0">>, Documents(d - 1))

\* The dotted paths: one and two segments, a numeric one among them.
Paths ==
    << <<"a">>, <<"0">>, <<"a", ".", "a">>, <<"a", ".", "0">>,
       <<"a", ".", "a", ".", "0">> >>

InitResolve ==
    /\ CollectIdle
    /\ ClassifyIdle
    /\ ParseIdle
    /\ DailyIdle
    /\ TokenIdle
    /\ \E d \in 1..Len(Documents(MaxDepth)) : document = Documents(MaxDepth)[d]
    /\ \E p \in 1..Len(Paths) : path = Paths[p]
    /\ resolve_pc = "ready"
    /\ resolved = <<>>

\* parse_items: `for key in path.split("."): x = x.get(key, "") if
\* isinstance(x, dict) else ""`.
ResolveField ==
    /\ resolve_pc = "ready"
    /\ resolved' = [site |-> "field", ok |-> TRUE,
                    v |-> WalkField(document, Split(path, "."))]
    /\ resolve_pc' = "resolved"
    /\ UNCHANGED <<beside_resolve, document, path>>

\* fetch_json_api: `for key in list_path.split("."): items =
\* items.get(key, [])`; ok is FALSE when the loop raised AttributeError.
ResolveList ==
    /\ resolve_pc = "ready"
    /\ resolved' = [site |-> "list"] @@ WalkList(document, Split(path, "."))
    /\ resolve_pc' = "resolved"
    /\ UNCHANGED <<beside_resolve, document, path>>

NextResolve ==
    \/ ResolveField
    \/ ResolveList

SpecResolve == InitResolve /\ [][NextResolve]_vars

(* ------------------------------ claim C15 ------------------------------ *)

\* The default of the call site: "" for the fields of an item, [] for the
\* list of items.
DefaultOf(site) == IF site = "field" THEN PStr(<<>>) ELSE PList(<<>>)

RECURSIVE Reached(_, _, _)
\* The value the segments lead to from x when every one of them is a key
\* of the mapping reached before it, the default otherwise.
Reached(x, segs, default) ==
    IF segs = <<>> THEN x
    ELSE IF x.t = "map" /\ Head(segs) \in DOMAIN x.v
         THEN Reached(x.v[Head(segs)], Tail(segs), default)
         ELSE default

\* C15: path resolution is total.  At both call sites the loop over the
\* segments comes to its end without raising, whatever the document is,
\* and its value is the value the segments lead to as mapping keys, or the
\* default of the call site as soon as a value is no mapping or lacks the
\* key; an array is never indexed by a numeric segment.
C15_PathResolutionTotal ==
    resolve_pc = "resolved" =>
      /\ resolved.ok
      /\ resolved.v = Reached(document, Split(path, "."), DefaultOf(resolved.site))

(* ====================================================================== *)
(* Claim C16, on NewsCollector.collect (specification Spec).               *)
(* ====================================================================== *)

\* The keys of the `headers` or `params` mapping of a source whose value
\* is not a string.
NonStringKeys(id, field) ==
    LET m == Get(ConfigOf(id), field, <<>>)
    IN {k \in DOMAIN m : m[k].t # "str"}

\* An enabled source with an endpoint and a non-string header or parameter.
HasNonString(id) ==
    /\ ~IsDisabled(id)
    /\ ~EndpointAbsent(id)
    /\ NonStringKeys(id, "headers") \cup NonStringKeys(id, "params") # {}

\* C16: a non-string header or parameter value is passed through.  For a
\* source with such a value, collect does not raise at that source, every
\* call made for it carries the value as configured, and the fetch is
\* performed: once fetch_json_api returned, the source has been called.
C16_NonStringPassedThrough ==
    \A id \in AllIds :
      HasNonString(id) =>
        /\ ~(pc = "raised" /\ CurrentId = id)
        /\ \A n \in 1..Len(LogOf(id)) :
             LET e == LogOf(id)[n].req
             IN /\ \A k \in NonStringKeys(id, "headers") :
                     e.headers[k] = ConfigOf(id).headers[k]
                /\ e.method = "GET" =>
                     \A k \in NonStringKeys(id, "params") :
                       e.payload[k] = ConfigOf(id).params[k]
        /\ HasReturned(id) => Len(LogOf(id)) >= 1

(* ====================================================================== *)
(* DailyNewsCollector.search_topic and collect_daily_news                  *)
(* (src/src/daily_news.py) over config.DAILY_TOPICS.                       *)
(* ====================================================================== *)

\* config.DAILY_TOPICS
DAILY_TOPICS ==
    << <<"A", "I", " ", "u5927", "u6a21", "u578b">>,
       <<"G", "P", "T">>,
       <<"C", "l", "a", "u", "d", "e">>,
       <<"G", "e", "m", "i", "n", "i">>,
       <<"O", "p", "e", "n", "A", "I">>,
       <<"A", "n", "t", "h", "r", "o", "p", "i", "c">>,
       <<"G", "o", "o", "g", "l", "e", " ", "A", "I">>,
       <<"M", "i", "c", "r", "o", "s", "o", "f", "t", " ", "A", "I">>,
       <<"M", "e", "t", "a", " ", "A", "I">>,
       <<"u5177", "u8eab", "u667a", "u80fd">>,
       <<"u667a", "u80fd", "u4f53", " ", "A", "g", "e", "n", "t">> >>

\* daily_news.MOCK_NEWS_DATA (the scores kept as text).
MOCK_NEWS_DATA ==
    <<
      [title |->
         <<"O", "p", "e", "n", "A", "I", "u53d1", "u5e03", "G", "P", "T",
           "-", "5", "u9884", "u89c8", "u7248", "uff0c", "u591a", "u9879",
           "u80fd", "u529b", "u5927", "u5e45", "u63d0", "u5347">>,
       content |->
         <<"O", "p", "e", "n", "A", "I", "u4eca", "u65e5", "u53d1",
           "u5e03", "G", "P", "T", "-", "5", "u9884", "u89c8", "u7248",
           "u672c", "uff0c", "u5728", "u63a8", "u7406", "u80fd", "u529b",
           "u3001", "u591a", "u6a21", "u6001", "u7406", "u89e3", "u3001",
           "u957f", "u6587", "u672c", "u5904", "u7406", "u7b49", "u65b9",
           "u9762", "u5747", "u6709", "u663e", "u8457", "u63d0", "u5347",
           "uff0c", "u5f15", "u53d1", "u884c", "u4e1a", "u5e7f", "u6cdb",
           "u5173", "u6ce8", "u3002">>,
       score |-> "0.95",
       topic |-> <<"u5927", "u6a21", "u578b">>,
       source |-> <<"O", "p", "e", "n", "A", "I">>],
      [title |->
         <<"C", "l", "a", "u", "d", "e", " ", "4", "u6b63", "u5f0f",
           "u53d1", "u5e03", "uff0c", "u7f16", "u7a0b", "u80fd", "u529b",
           "u8d85", "u8d8a", "G", "P", "T", "-", "5">>,
       content |->
         <<"A", "n", "t", "h", "r", "o", "p", "i", "c", "u53d1", "u5e03",
           "C", "l", "a", "u", "d", "e", " ", "4", "uff0c", "u5728",
           "u4ee3", "u7801", "u751f", "u6210", "u3001", "u8c03", "u8bd5",
           "u7b49", "u7f16", "u7a0b", "u4efb", "u52a1", "u4e2d", "u8868",
           "u73b0", "u8d85", "u8d8a", "G", "P", "T", "-", "5", "uff0c",
           "u540c", "u65f6", "u4fdd", "u6301", "u4e86", "u5bf9", "u5b89",
           "u5168", "u548c", "u4f26", "u7406", "u7684", "u9ad8", "u6807",
           "u51c6", "u8981", "u6c42", "u3002">>,
       score |-> "0.92",
       topic |-> <<"u5927", "u6a21", "u578b">>,
       source |-> <<"A", "n", "t", "h", "r", "o", "p", "i", "c">>],
      [title |->
         <<"u8c37", "u6b4c", "u53d1", "u5e03", "G", "e", "m", "i", "n",
           "i", " ", "2", ".", "5", " ", "P", "r", "o", "uff0c", "u6570",
           "u5b66", "u63a8", "u7406", "u80fd", "u529b", "u5927", "u5e45",
           "u63d0", "u5347">>,
       content |->
         <<"u8c37", "u6b4c", "D", "e", "e", "p", "M", "i", "n", "d",
           "u53d1", "u5e03", "G", "e", "m", "i", "n", "i", " ", "2", ".",
           "5", " ", "P", "r", "o", "uff0c", "u5728", "u6570", "u5b66",
           "u63a8", "u7406", "u3001", "u4ee3", "u7801", "u751f", "u6210",
           "u7b49", "u57fa", "u51c6", "u6d4b", "u8bd5", "u4e2d", "u521b",
           "u4e0b", "u65b0", "u7eaa", "u5f55", "uff0c", "u591a", "u9879",
           "u6307", "u6807", "u8d85", "u8d8a", "u7ade", "u54c1", "u3002">>,
       score |-> "0.9",
       topic |-> <<"u5927", "u6a21", "u578b">>,
       source |-> <<"G", "o", "o", "g", "l", "e", " ", "A", "I">>],
      [title |->
         <<"M", "e", "t", "a", "u5f00", "u6e90", "L", "l", "a", "m", "a",
           " ", "4", "uff0c", "u53c2", "u6570", "u89c4", "u6a21", "u521b",
           "u7eaa", "u5f55">>,
       content |->
         <<"M", "e", "t", "a", "u5ba3", "u5e03", "u5f00", "u6e90", "L",
           "l", "a", "m", "a", " ", "4", "uff0c", "u53c2", "u6570",
           "u89c4", "u6a21", "u8fbe", "u5230", "u4e07", "u4ebf", "u7ea7",
           "u522b", "uff0c", "u6027", "u80fd", "u63a5", "u8fd1", "u95ed",
           "u6e90", "u6a21", "u578b", "uff0c", "u4e3a", "u5f00", "u6e90",
           "u793e", "u533a", "u5e26", "u6765", "u91cd", "u5927", "u5229",
           "u597d", "u3002">>,
       score |-> "0.88",
       topic |-> <<"u5f00", "u6e90", "u52a8", "u6001">>,
       source |-> <<"M", "e", "t", "a", " ", "A", "I">>],
      [title |->
         <<"F", "i", "g", "u", "r", "e", " ", "H", "e", "l", "i", "x",
           "u4eba", "u5f62", "u673a", "u5668", "u4eba", "u5b9e", "u73b0",
           "u81ea", "u4e3b", "u51b3", "u7b56">>,
       content |->
         <<"F", "i", "g", "u", "r", "e", " ", "A", "I", "u53d1", "u5e03",
           "u65b0", "u4e00", "u4ee3", "u4eba", "u5f62", "u673a", "u5668",
           "u4eba", "H", "e", "l", "i", "x", "uff0c", "u5177", "u5907",
           "u5b8c", "u6574", "u7684", "u81ea", "u4e3b", "u51b3", "u7b56",
           "u80fd", "u529b", "uff0c", "u53ef", "u5728", "u590d", "u6742",
           "u73af", "u5883", "u4e2d", "u72ec", "u7acb", "u5b8c", "u6210",
           "u591a", "u79cd", "u4efb", "u52a1", "u3002">>,
       score |-> "0.87",
       topic |-> <<"u5177", "u8eab", "u667a", "u80fd">>,
       source |-> <<"F", "i", "g", "u", "r", "e", " ", "A", "I">>],
      [title |->
         <<"u667a", "u5143", "u673a", "u5668", "u4eba", "u53d1", "u5e03",
           "u901a", "u7528", "u5177", "u8eab", "u667a", "u80fd", "u5e95",
           "u5ea7">>,
       content |->
         <<"u667a", "u5143", "u673a", "u5668", "u4eba", "u53d1", "u5e03",
           "u901a", "u7528", "u5177", "u8eab", "u667a", "u80fd", "u5e95",
           "u5ea7", "G", "O", "-", "1", "uff0c", "u652f", "u6301", "u591a",
           "u79cd", "u673a", "u5668", "u4eba", "u5f62", "u6001", "uff0c",
           "u5927", "u5e45", "u964d", "u4f4e", "u5177", "u8eab", "u667a",
           "u80fd", "u5f00", "u53d1", "u95e8", "u69db", "u3002">>,
       score |-> "0.85",
       topic |-> <<"u5177", "u8eab", "u667a", "u80fd">>,
       source |-> <<"u667a", "u5143", "u673a", "u5668", "u4eba">>],
      [title |->
         <<"A", "u", "t", "o", "G", "P", "T", " ", "5", ".", "0", "u53d1",
           "u5e03", "uff0c", "u81ea", "u4e3b", "A", "g", "e", "n", "t",
           "u80fd", "u529b", "u663e", "u8457", "u589e", "u5f3a">>,
       content |->
         <<"A", "u", "t", "o", "G", "P", "T", "u53d1", "u5e03", "5", ".",
           "0", "u7248", "u672c", "uff0c", "u5728", "u591a", "u6b65",
           "u9aa4", "u4efb", "u52a1", "u89c4", "u5212", "u3001", "u591a",
           "A", "g", "e", "n", "t", "u534f", "u4f5c", "u7b49", "u65b9",
           "u9762", "u5b9e", "u73b0", "u7a81", "u7834", "uff0c", "A", "g",
           "e", "n", "t", "u80fd", "u529b", "u63a5", "u8fd1", "u4eba",
           "u7c7b", "u6c34", "u5e73", "u3002">>,
       score |-> "0.84",
       topic |-> <<"u667a", "u80fd", "u4f53">>,
       source |-> <<"A", "u", "t", "o", "G", "P", "T">>],
      [title |->
         <<"u5fae", "u8f6f", "u53d1", "u5e03", "u591a", "A", "g", "e", "n",
           "t", "u534f", "u4f5c", "u5e73", "u53f0", "A", "u", "t", "o",
           "G", "e", "n", " ", "3", ".", "0">>,
       content |->
         <<"u5fae", "u8f6f", "u53d1", "u5e03", "A", "u", "t", "o", "G",
           "e", "n", " ", "3", ".", "0", "uff0c", "u652f", "u6301",
           "u6784", "u5efa", "u590d", "u6742", "u7684", "u591a", "A", "g",
           "e", "n", "t", "u7cfb", "u7edf", "uff0c", "u63d0", "u4f9b",
           "u4f01", "u4e1a", "u7ea7", "A", "g", "e", "n", "t", "u7f16",
           "u6392", "u80fd", "u529b", "u3002">>,
       score |-> "0.82",
       topic |-> <<"u667a", "u80fd", "u4f53">>,
       source |-> <<"M", "i", "c", "r", "o", "s", "o", "f", "t", " ", "A",
                    "I">>],
      [title |->
         <<"u82f1", "u4f1f", "u8fbe", "u53d1", "u5e03", "u65b0", "u4e00",
           "u4ee3", "A", "I", "u82af", "u7247", "B", "l", "a", "c", "k",
           "w", "e", "l", "l", " ", "U", "l", "t", "r", "a">>,
       content |->
         <<"u82f1", "u4f1f", "u8fbe", "u53d1", "u5e03", "B", "l", "a", "c",
           "k", "w", "e", "l", "l", " ", "U", "l", "t", "r", "a", " ", "A",
           "I", "u82af", "u7247", "uff0c", "u6027", "u80fd", "u8f83",
           "u524d", "u4ee3", "u63d0", "u5347", "3", "u500d", "uff0c",
           "u4e3a", "u5927", "u6a21", "u578b", "u8bad", "u7ec3", "u548c",
           "u63a8", "u7406", "u63d0", "u4f9b", "u66f4", "u5f3a", "u7b97",
           "u529b", "u652f", "u6301", "u3002">>,
       score |-> "0.8",
       topic |-> <<"u7b97", "u529b", "u57fa", "u7840", "u8bbe", "u65bd">>,
       source |-> <<"N", "V", "I", "D", "I", "A">>],
      [title |->
         <<"u534e", "u4e3a", "u6607", "u817e", "9", "1", "0", "C", "u6b63",
           "u5f0f", "u5546", "u7528", "uff0c", "u56fd", "u4ea7", "A", "I",
           "u82af", "u7247", "u518d", "u7a81", "u7834">>,
       content |->
         <<"u534e", "u4e3a", "u53d1", "u5e03", "u6607", "u817e", "9", "1",
           "0", "C", "u5546", "u7528", "u7248", "u672c", "uff0c", "u6027",
           "u80fd", "u63a5", "u8fd1", "A", "1", "0", "0", "uff0c", "u56fd",
           "u4ea7", "A", "I", "u82af", "u7247", "u751f", "u6001", "u8fdb",
           "u4e00", "u6b65", "u5b8c", "u5584", "u3002">>,
       score |-> "0.78",
       topic |-> <<"u7b97", "u529b", "u57fa", "u7840", "u8bbe", "u65bd">>,
       source |-> <<"u534e", "u4e3a">>],
      [title |->
         <<"O", "p", "e", "n", "A", "I", "u4e0e", "u591a", "u5bb6",
           "u533b", "u7597", "u673a", "u6784", "u5408", "u4f5c", "u63a8",
           "u8fdb", "A", "I", "u533b", "u7597", "u5e94", "u7528">>,
       content |->
         <<"O", "p", "e", "n", "A", "I", "u5ba3", "u5e03", "u4e0e",
           "u591a", "u5bb6", "u9876", "u7ea7", "u533b", "u7597", "u673a",
           "u6784", "u5408", "u4f5c", "uff0c", "u5171", "u540c", "u63a2",
           "u7d22", "A", "I", "u5728", "u75be", "u75c5", "u8bca", "u65ad",
           "u3001", "u836f", "u7269", "u7814", "u53d1", "u7b49", "u9886",
           "u57df", "u7684", "u5e94", "u7528", "u3002">>,
       score |-> "0.76",
       topic |-> <<"u5e94", "u7528", "u843d", "u5730">>,
       source |-> <<"O", "p", "e", "n", "A", "I">>],
      [title |->
         <<"u56fd", "u5185", "u5927", "u6a21", "u578b", "u9996", "u6b21",
           "u901a", "u8fc7", "u533b", "u7597", "u6267", "u4e1a", "u533b",
           "u5e08", "u8d44", "u683c", "u8003", "u8bd5">>,
       content |->
         <<"u56fd", "u5185", "u67d0", "u5927", "u6a21", "u578b", "u9996",
           "u6b21", "u901a", "u8fc7", "u533b", "u7597", "u6267", "u4e1a",
           "u533b", "u5e08", "u8d44", "u683c", "u8003", "u8bd5", "uff0c",
           "A", "I", "u5728", "u533b", "u7597", "u9886", "u57df", "u7684",
           "u5e94", "u7528", "u8fc8", "u51fa", "u91cd", "u8981", "u4e00",
           "u6b65", "u3002">>,
       score |-> "0.75",
       topic |-> <<"u5e94", "u7528", "u843d", "u5730">>,
       source |-> <<"u884c", "u4e1a", "u52a8", "u6001">>]
    >>

\* search_topic without a client: a canned answer and no results.
NoClientAnswer(topic) ==
    [answer |-> topic \o
       <<"u9886", "u57df", "u4eca", "u65e5", "u4f20", "u6765", "u591a",
         "u9879", "u8fdb", "u5c55", "uff0c", "u6280", "u672f", "u6301",
         "u7eed", "u8fed", "u4ee3", "u5347", "u7ea7", "u3002">>,
     results |-> <<>>]

\* search_topic when client.search raised: a canned answer and no results.
FailedAnswer(topic) ==
    [answer |-> topic \o
       <<"u9886", "u57df", "u4eca", "u65e5", "u4f20", "u6765", "u591a",
         "u9879", "u8fdb", "u5c55", "u3002">>,
     results |-> <<>>]

\* The answer the search provider gives for the topic at position i.
ProviderAnswer(i) == <<"A">> \o DecimalOf(i)

\* What client.search returns for the topic at position i: an answer and
\* one result, its content longer than the cap.
ProviderResult(i) ==
    [answer |-> ProviderAnswer(i),
     results |-> << [title |-> <<"T">> \o DecimalOf(i),
                     url |-> <<"h", "t", "t", "p", "s", ":", "/", "/", "h">>
                             \o DecimalOf(i) \o <<"/", "p">>,
                     content |-> LongSummary,
                     score |-> "0.8"] >>]

\* search_topic(topic) for the topic at position i, by how the search went.
search_topic(i, outcome) ==
    CASE outcome = "unsent" -> NoClientAnswer(DAILY_TOPICS[i])
      [] outcome = "failed" -> FailedAnswer(DAILY_TOPICS[i])
      [] outcome = "ok" -> ProviderResult(i)

\* d[key] = value on a dict held as its items in insertion order.
DictPut(d, key, value) ==
    IF \E n \in 1..Len(d) : d[n].key = key
    THEN [n \in 1..Len(d) |->
            IF d[n].key = key THEN [key |-> key, value |-> value] ELSE d[n]]
    ELSE Append(d, [key |-> key, value |-> value])

\* The article collect_daily_news builds from one search result.
ArticleOf(item, topic) ==
    LET url == Get(item, "url", <<>>)
        content == Get(item, "content", <<>>)
    IN [title |-> Get(item, "title", <<>>),
        url |-> url,
        content |-> SubSeq(content, 1, IF Len(content) < ContentCap
                                       THEN Len(content) ELSE ContentCap),
        score |-> Get(item, "score", "0"),
        topic |-> topic,
        source |-> IF Contains(url, <<"/">>) THEN Split(url, "/")[3]
                   ELSE <<"U", "n", "k", "n", "o", "w", "n">>]

\* The articles of the batch: with a client, those of the result of the
\* last topic only (the loop over the results stands after the loop over
\* the topics); without one, the canned articles.
ArticlesOfBatch ==
    IF client
    THEN LET items == Get(last_result, "results", <<>>)
         IN [n \in 1..Len(items) |->
               ArticleOf(items[n], DAILY_TOPICS[Len(DAILY_TOPICS)])]
    ELSE MOCK_NEWS_DATA

\* all_results["ai_answer"]: the answer of the first entry of topics.
AiAnswer ==
    IF topics # <<>> THEN Get(topics[1].value, "answer", <<>>) ELSE <<>>

InitDaily ==
    /\ CollectIdle
    /\ ClassifyIdle
    /\ ParseIdle
    /\ ResolveIdle
    /\ TokenIdle
    /\ client \in BOOLEAN
    /\ daily_pc = "topics"
    /\ topic_idx = 1
    /\ topics = <<>>
    /\ last_result = <<>>
    /\ search_log = <<>>
    /\ batch = <<>>

\* One iteration of the loop over DAILY_TOPICS, search_topic returning in
\* the way `outcome` names; its result is a non-empty dict, so `if result`
\* lets it into topics.
SearchStep(outcome) ==
    /\ daily_pc = "topics"
    /\ topic_idx <= Len(DAILY_TOPICS)
    /\ LET result_ == search_topic(topic_idx, outcome)
       IN /\ last_result' = result_
          /\ topics' = IF DOMAIN result_ # {}
                       THEN DictPut(topics, DAILY_TOPICS[topic_idx], result_)
                       ELSE topics
    /\ search_log' = Append(search_log, outcome)
    /\ topic_idx' = topic_idx + 1
    /\ UNCHANGED <<beside_daily, client, daily_pc, batch>>

\* search_topic: `if not self.client`.
SearchUnsent == ~client /\ SearchStep("unsent")

\* search_topic: client.search returned.
SearchOk == client /\ SearchStep("ok")

\* search_topic: client.search raised, the except clause returns.
SearchFailed == client /\ SearchStep("failed")

\* After the loop: the articles, the ai_answer, return.
BuildBatch ==
    /\ daily_pc = "topics"
    /\ topic_idx > Len(DAILY_TOPICS)
    /\ batch' = [ai_answer |-> AiAnswer, articles |-> ArticlesOfBatch]
    /\ daily_pc' = "done"
    /\ UNCHANGED <<beside_daily, client, topic_idx, topics, last_result,
                   search_log>>

NextDaily ==
    \/ SearchUnsent
    \/ SearchOk
    \/ SearchFailed
    \/ BuildBatch

SpecDaily == InitDaily /\ [][NextDaily]_vars

(* ------------------------------ claim C17 ------------------------------ *)

\* C17: the highlight of the batch is the answer of the first topic, in
\* DAILY_TOPICS order, whose search succeeded; a topic whose search failed
\* or was not sent never supplies it, and it is empty when no search
\* succeeded.
C17_HighlightFromFirstSuccess ==
    daily_pc = "done" =>
      LET succeeded == {i \in 1..Len(search_log) : search_log[i] = "ok"}
      IN batch.ai_answer =
           IF succeeded = {} THEN <<>>
           ELSE ProviderAnswer(CHOOSE i \in succeeded :
                                 \A j \in succeeded : i <= j)

(* ====================================================================== *)
(* WeChatClient.get_access_token and _request (src/src/wechat_client.py),  *)
(* over calls and clock advances.  Times are whole seconds.                *)
(* ====================================================================== *)

\* Largest number of calls of get_access_token.
MaxCalls == 3

\* Largest number of clock advances.
MaxTicks == 3

\* result.get("expires_in", 7200)
DefaultExpiresIn == 7200

\* now + expires_in - 300: the token is given up five minutes early.
ExpiryMargin == 300

\* By how many seconds the clock advances between calls.
TickSteps == {50, 100, 6900}

\* The token the n-th request obtains.
TokenOf(n) == <<"t">> \o DecimalOf(n)

\* The decoded answers of the token endpoint that _request returns: a
\* token with a lifetime shorter than the margin, with one longer than it,
\* with none given, and with errcode 0.
GoodResponses(n) ==
    << [access_token |-> TokenOf(n), expires_in |-> 200],
       [access_token |-> TokenOf(n), expires_in |-> 400],
       [access_token |-> TokenOf(n)],
       [errcode |-> 0, access_token |-> TokenOf(n), expires_in |-> 400] >>

\* How a request fails: requests.get or response.json() raises; the answer
\* has a non-zero errcode and _request raises; the answer has neither an
\* errcode nor an access_token and result["access_token"] raises KeyError.
BadResponses ==
    << [raises |-> "transport"],
       [errcode |-> 40013, errmsg |-> "invalid appid"],
       [errmsg |-> "ok"] >>

\* _request: `if result.get("errcode") and result["errcode"] != 0: raise`.
RequestRaises(response) ==
    \/ "raises" \in DOMAIN response
    \/ Get(response, "errcode", 0) # 0

\* Variant: the held token still used at the second it expires.
UsesCacheAtExpiry(force_refresh) ==
    ~force_refresh /\ access_token # NoToken /\ now <= token_expires_at

\* get_access_token: `if not force_refresh and self.access_token and
\* now < self.token_expires_at`.
UsesCache(force_refresh) ==
    ~force_refresh /\ access_token # NoToken /\ now < token_expires_at

InitToken ==
    /\ CollectIdle
    /\ ClassifyIdle
    /\ ParseIdle
    /\ ResolveIdle
    /\ DailyIdle
    /\ TokenIdle

\* time.time() grows between two calls.
Tick ==
    /\ clock_ticks < MaxTicks
    /\ \E d \in TickSteps : now' = now + d
    /\ clock_ticks' = clock_ticks + 1
    /\ UNCHANGED <<beside_token, access_token, token_expires_at,
                   token_requests, token_calls, call>>

\* get_access_token returns the held token.
GetCached ==
    /\ token_calls < MaxCalls
    /\ \E force_refresh \in BOOLEAN :
         /\ UsesCache(force_refresh)
         /\ call' = [force_refresh |-> force_refresh, did |-> "cached",
                     response |-> <<>>, returned |-> access_token]
    /\ token_calls' = token_calls + 1
    /\ UNCHANGED <<beside_token, access_token, token_expires_at, now,
                   token_requests, clock_ticks>>

\* get_access_token requests a token and the request succeeds.
GetRequested ==
    /\ token_calls < MaxCalls
    /\ \E force_refresh \in BOOLEAN :
         /\ ~UsesCache(force_refresh)
         /\ \E r \in 1..Len(GoodResponses(token_requests + 1)) :
              LET response == GoodResponses(token_requests + 1)[r]
              IN /\ ~RequestRaises(response)
                 /\ "access_token" \in DOMAIN response
                 /\ access_token' = response.access_token
                 /\ token_expires_at' =
                      now + Get(response, "expires_in", DefaultExpiresIn)
                        - ExpiryMargin
                 /\ call' = [force_refresh |-> force_refresh,
                             did |-> "requested", response |-> response,
                             returned |-> response.access_token]
    /\ token_requests' = token_requests + 1
    /\ token_calls' = token_calls + 1
    /\ UNCHANGED <<beside_token, now, clock_ticks>>

\* get_access_token requests a token and the request fails: the exception
\* leaves get_access_token before either attribute is assigned.
GetRaised ==
    /\ token_calls < MaxCalls
    /\ \E force_refresh \in BOOLEAN :
         /\ ~UsesCache(force_refresh)
         /\ \E r \in 1..Len(BadResponses) :
              LET response == BadResponses[r]
              IN /\ RequestRaises(response)
                      \/ "access_token" \notin DOMAIN response
                 /\ call' = [force_refresh |-> force_refresh,
                             did |-> "raised", response |-> response,
                             returned |-> NoToken]
    /\ token_requests' = token_requests + 1
    /\ token_calls' = token_calls + 1
    /\ UNCHANGED <<beside_token, access_token, token_expires_at, now,
                   clock_ticks>>

NextToken ==
    \/ Tick
    \/ GetCached
    \/ GetRequested
    \/ GetRaised

SpecToken == InitToken /\ [][NextToken]_vars

(* ------------------------------ claim C18 ------------------------------ *)

\* What the claim says of one call of get_access_token, from the state
\* before it to the state after it.
C18_Call ==
    token_calls' = token_calls + 1 =>
      LET must == \/ call'.force_refresh
                  \/ access_token = NoToken
                  \/ now >= token_expires_at
      IN /\ (token_requests' = token_requests + 1) <=> must
         /\ (token_requests' = token_requests) <=> ~must
         /\ ~must =>
              /\ call'.did = "cached"
              /\ call'.returned = access_token
              /\ UNCHANGED <<access_token, token_expires_at>>
         /\ call'.did = "requested" =>
              /\ must
              /\ call'.returned = access_token'
              /\ token_expires_at' =
                   now + (IF "expires_in" \in DOMAIN call'.response
                          THEN call'.response.expires_in ELSE 7200) - 300
         /\ call'.did = "raised" =>
              /\ must
              /\ UNCHANGED <<access_token, token_expires_at>>

====
